---------------------------- MODULE Spec2Model ----------------------------
(***************************************************************************)
(* Nearest-projection mapping (NearestProjectionMapping.cpp) as a state    *)
(* machine: one mapping instance, its two meshes, its stencil table        *)
(* (_weights), its _hasComputedMapping flag and the data arrays map works  *)
(* on.                                                                     *)
(*                                                                         *)
(* Numbers.  Coordinates are integers.  Weights, distances and field       *)
(* values are exact rationals <<n, d>> (d > 0, lowest terms) standing for  *)
(* the doubles of the code; distances are kept squared, which orders them  *)
(* as the distances themselves.                                            *)
(*                                                                         *)
(* Vertex references.  elem.element is a pointer to a mesh::Vertex; here   *)
(* it is the pair [mesh, id]: the name of the mesh that owns the vertex    *)
(* and the vertex's getID() (its 0-based position in the mesh).            *)
(***************************************************************************)
EXTENDS Integers, Sequences, FiniteSets, TLC

VARIABLES
  constraint,           \* Mapping::getConstraint()
  dimensions,           \* Mapping::getDimensions()
  inputMesh,            \* *input()
  outputMesh,           \* *output()
  _weights,             \* the stencil table, one InterpolationElements per origin
  _hasComputedMapping,
  lastOp,               \* the operation called last, and what that call was given and gave:
  returned,             \*   its return value (hasComputedMapping), "void" otherwise
  dataDimensions,       \*   inData->getDimensions()          (map; 0 otherwise)
  inValues,             \*   inData->values()                 (map; <<>> otherwise)
  outBefore,            \*   outData->values() when called    (map; <<>> otherwise)
  outValues,            \*   outData->values() when it ended  (map; <<>> otherwise)
  status                \* "ok", or "aborted" once an assertion or a fault ended the process

vars == <<constraint, dimensions, inputMesh, outputMesh, _weights, _hasComputedMapping,
          dataDimensions, inValues, outBefore, outValues, lastOp, returned, status>>

meshVars == <<constraint, dimensions, inputMesh, outputMesh>>
dataVars == <<dataDimensions, inValues, outBefore, outValues>>

(* The record of a call that is given no data arrays *)
NoData ==
  /\ dataDimensions' = 0
  /\ inValues' = <<>>
  /\ outBefore' = <<>>
  /\ outValues' = <<>>

-----------------------------------------------------------------------------
(* Bounds of the model *)

MaxOrigins == 2     \* vertices of the origins mesh
MaxVal == 0         \* largest value of a constant input field (a rising field is always tried)

(* Program constant: the number of nearest candidates fetched per origin *)
nnearest == 4

-----------------------------------------------------------------------------
(* Exact rational arithmetic *)

Abs(x) == IF x < 0 THEN -x ELSE x

RECURSIVE GCD(_, _)
GCD(a, b) == IF b = 0 THEN a ELSE GCD(b, a % b)

Rat(n, d) ==
  LET g == GCD(Abs(n), Abs(d))
      s == IF d < 0 THEN -1 ELSE 1
  IN  <<(s * n) \div g, (s * d) \div g>>

RatZero == <<0, 1>>
RatOne == <<1, 1>>
RatAdd(a, b) == Rat(a[1] * b[2] + b[1] * a[2], a[2] * b[2])
RatMul(a, b) == Rat(a[1] * b[1], a[2] * b[2])
RatLess(a, b) == a[1] * b[2] < b[1] * a[2]
RatGeqZero(a) == a[1] >= 0

RECURSIVE SumSeq(_)
SumSeq(s) == IF s = <<>> THEN RatZero ELSE RatAdd(Head(s), SumSeq(Tail(s)))

-----------------------------------------------------------------------------
(* Vectors *)

Sub(p, q) == [i \in 1..Len(p) |-> p[i] - q[i]]
Dot(p, q) == IF Len(p) = 2 THEN p[1] * q[1] + p[2] * q[2]
             ELSE p[1] * q[1] + p[2] * q[2] + p[3] * q[3]
Cross(p, q) == <<p[2] * q[3] - p[3] * q[2],
                 p[3] * q[1] - p[1] * q[3],
                 p[1] * q[2] - p[2] * q[1]>>

-----------------------------------------------------------------------------
(* Meshes: vertices (coordinates, tag bit), edges and triangles over vertex ids *)

Vtx(c) == [coords |-> c, tagged |-> FALSE]
Edge(a, b) == [v0 |-> a, v1 |-> b]
Tri(a, b, c) == [v0 |-> a, v1 |-> b, v2 |-> c]
Mesh(n, vs, es, ts) == [name |-> n, vertices |-> vs, edges |-> es, triangles |-> ts]

Coords(mesh, id) == mesh.vertices[id + 1].coords
Ref(mesh, id) == [mesh |-> mesh.name, id |-> id]

(* The search meshes the instance is tried on, per dimension: without vertices,    *)
(* vertices only, a ring of three edges (two of them at equal distance from        *)
(* (1,1)), and five edges of which the only one (1,1) projects into is the fifth   *)
(* nearest.                                                                        *)
SearchMeshes2D ==
  { Mesh("S2empty", <<>>, <<>>, <<>>),
    Mesh("S2verts", <<Vtx(<<0, 0>>), Vtx(<<4, 0>>)>>, <<>>, <<>>),
    Mesh("S2ring", <<Vtx(<<0, 0>>), Vtx(<<4, 0>>), Vtx(<<0, 4>>)>>,
         <<Edge(0, 1), Edge(1, 2), Edge(2, 0)>>, <<>>),
    Mesh("S2star",
         <<Vtx(<<1, 0>>), Vtx(<<1, -1>>), Vtx(<<2, 1>>), Vtx(<<3, 1>>), Vtx(<<1, 2>>),
           Vtx(<<1, 3>>), Vtx(<<0, 1>>), Vtx(<<-1, 1>>), Vtx(<<-3, 0>>), Vtx(<<-3, 2>>)>>,
         <<Edge(8, 9), Edge(0, 1), Edge(2, 3), Edge(4, 5), Edge(6, 7)>>, <<>>) }

(* In 3D: without vertices, vertices only, edges only, a triangle with its edges,  *)
(* and two parallel triangles at equal distance from the plane z = 1.              *)
SearchMeshes3D ==
  { Mesh("S3empty", <<>>, <<>>, <<>>),
    Mesh("S3verts", <<Vtx(<<0, 0, 0>>), Vtx(<<4, 0, 0>>)>>, <<>>, <<>>),
    Mesh("S3edges", <<Vtx(<<0, 0, 0>>), Vtx(<<4, 0, 0>>), Vtx(<<0, 4, 0>>)>>,
         <<Edge(0, 1), Edge(1, 2), Edge(2, 0)>>, <<>>),
    Mesh("S3tri", <<Vtx(<<0, 0, 0>>), Vtx(<<4, 0, 0>>), Vtx(<<0, 4, 0>>)>>,
         <<Edge(0, 1), Edge(1, 2), Edge(2, 0)>>, <<Tri(0, 1, 2)>>),
    Mesh("S3two",
         <<Vtx(<<0, 0, 0>>), Vtx(<<4, 0, 0>>), Vtx(<<0, 4, 0>>),
           Vtx(<<0, 0, 2>>), Vtx(<<4, 0, 2>>), Vtx(<<0, 4, 2>>)>>,
         <<>>, <<Tri(3, 4, 5), Tri(0, 1, 2)>>) }

SearchMeshes(d) == IF d = 2 THEN SearchMeshes2D ELSE SearchMeshes3D

(* Where origin vertices lie: inside the ring or over the triangle, at equal        *)
(* distance from two candidates; beside it, where only the end of an edge is the   *)
(* projection; and far outside, where no primitive but a vertex is left.           *)
OriginPoints(d) ==
  IF d = 2 THEN { <<1, 1>>, <<5, 0>>, <<6, -1>> }
  ELSE { <<1, 1, 1>>, <<5, 0, 0>>, <<6, -1, 0>> }

RECURSIVE SeqsUpTo(_, _)
SeqsUpTo(S, n) ==
  IF n = 0 THEN { <<>> }
  ELSE LET shorter == SeqsUpTo(S, n - 1)
       IN  shorter \cup { Append(s, x) : s \in { t \in shorter : Len(t) = n - 1 }, x \in S }

OriginMeshes(d) ==
  { Mesh("O", [i \in 1..Len(ps) |-> Vtx(ps[i])], <<>>, <<>>) : ps \in SeqsUpTo(OriginPoints(d), MaxOrigins) }

(* A mesh as another mapping may have left it: its first vertex already tagged. *)
FirstTagged(mesh) ==
  [mesh EXCEPT !.vertices = [i \in 1..Len(mesh.vertices) |->
                               [mesh.vertices[i] EXCEPT !.tagged = (i = 1)]]]

Tagged(mesh) == { id \in 0..(Len(mesh.vertices) - 1) : mesh.vertices[id + 1].tagged }


-----------------------------------------------------------------------------
(* Direction of the mapping *)

(* Mutant: the direction of the consistent case taken for both constraints' origins *)
originsSwapped == IF constraint = "CONSISTENT" THEN inputMesh ELSE outputMesh

origins == IF constraint = "CONSISTENT" THEN outputMesh ELSE inputMesh
search_space == IF constraint = "CONSISTENT" THEN inputMesh ELSE outputMesh

fVertices == origins.vertices
tVertices == search_space.vertices
tEdges == search_space.edges
tTriangles == search_space.triangles

-----------------------------------------------------------------------------
(* Projection kernels, query::generateInterpolationElements (spec 4.1).  The       *)
(* weights are returned signed; whether the projection is interior is decided by   *)
(* the caller.  The primitives of the meshes above are not degenerate.             *)

ElementsVertex(id) ==
  << [element |-> Ref(search_space, id), weight |-> RatOne] >>

ElementsEdge(q, e) ==
  LET a == Coords(search_space, tEdges[e + 1].v0)
      b == Coords(search_space, tEdges[e + 1].v1)
      ab == Sub(b, a)
      len2 == Dot(ab, ab)
      s == Dot(Sub(q, a), ab)
  IN  << [element |-> Ref(search_space, tEdges[e + 1].v0), weight |-> Rat(len2 - s, len2)],
         [element |-> Ref(search_space, tEdges[e + 1].v1), weight |-> Rat(s, len2)] >>

ElementsTriangle(q, t) ==
  LET a == Coords(search_space, tTriangles[t + 1].v0)
      u == Sub(Coords(search_space, tTriangles[t + 1].v1), a)
      v == Sub(Coords(search_space, tTriangles[t + 1].v2), a)
      w == Sub(q, a)
      n == Cross(u, v)
      nn == Dot(n, n)
      l1 == Dot(Cross(w, v), n)
      l2 == Dot(Cross(u, w), n)
  IN  << [element |-> Ref(search_space, tTriangles[t + 1].v0), weight |-> Rat(nn - l1 - l2, nn)],
         [element |-> Ref(search_space, tTriangles[t + 1].v1), weight |-> Rat(l1, nn)],
         [element |-> Ref(search_space, tTriangles[t + 1].v2), weight |-> Rat(l2, nn)] >>

(* Squared distances, bg::distance: to a vertex, to a segment, to a triangle's     *)
(* plane (spec 4.3, step 1).                                                       *)
DistanceVertex(q, id) ==
  LET d == Sub(q, Coords(search_space, id)) IN Rat(Dot(d, d), 1)

DistanceEdge(q, e) ==
  LET a == Coords(search_space, tEdges[e + 1].v0)
      b == Coords(search_space, tEdges[e + 1].v1)
      ab == Sub(b, a)
      aq == Sub(q, a)
      len2 == Dot(ab, ab)
      s == Dot(aq, ab)
  IN  IF s <= 0 THEN Rat(Dot(aq, aq), 1)
      ELSE IF s >= len2 THEN Rat(Dot(Sub(q, b), Sub(q, b)), 1)
      ELSE Rat(Dot(aq, aq) * len2 - s * s, len2)

DistanceTriangle(q, t) ==
  LET a == Coords(search_space, tTriangles[t + 1].v0)
      u == Sub(Coords(search_space, tTriangles[t + 1].v1), a)
      v == Sub(Coords(search_space, tTriangles[t + 1].v2), a)
      n == Cross(u, v)
      h == Dot(Sub(q, a), n)
  IN  Rat(h * h, Dot(n, n))

(* Spatial index (spec 4.2): nearest(point, k) is the k primitives with the        *)
(* smallest distance, ties at the cut broken by identifier; an empty tree          *)
(* answers with nothing.  dist is the sequence of the primitives' distances.       *)
Nearest(dist, k) ==
  LET Before(i, j) == RatLess(dist[i + 1], dist[j + 1]) \/ (dist[i + 1] = dist[j + 1] /\ i < j)
      ids == 0..(Len(dist) - 1)
  IN  { j \in ids : Cardinality({ i \in ids : Before(i, j) }) < k }

-----------------------------------------------------------------------------
(* Candidates: MatchType, its operator< and std::sort *)

MatchType(d, i) == [distance |-> d, index |-> i]

MatchLess(a, b) == RatLess(a.distance, b.distance)

(* The index hands the candidates over in any order and std::sort orders them by   *)
(* operator< alone: every arrangement in which no candidate is less than one       *)
(* before it can come out, that is, each built by taking, again and again, a       *)
(* candidate that none of the remaining ones is less than.                         *)
RECURSIVE SortedMatches(_)
SortedMatches(matches) ==
  IF matches = {} THEN { <<>> }
  ELSE UNION { { <<first>> \o rest : rest \in SortedMatches(matches \ { first }) } :
               first \in { m \in matches : \A o \in matches : ~MatchLess(o, m) } }

EdgeMatches(q) ==
  LET dist == [e \in 1..Len(tEdges) |-> DistanceEdge(q, e - 1)]
  IN  { MatchType(dist[e + 1], e) : e \in Nearest(dist, nnearest) }

TriangleMatches(q) ==
  LET dist == [t \in 1..Len(tTriangles) |-> DistanceTriangle(q, t - 1)]
  IN  { MatchType(dist[t + 1], t) : t \in Nearest(dist, nnearest) }

VertexMatches(q) ==
  Nearest([v \in 1..Len(tVertices) |-> DistanceVertex(q, v - 1)], 1)

(* std::all_of(..., elem.weight >= 0.0) *)
Interior(weights) == \A k \in 1..Len(weights) : RatGeqZero(weights[k].weight)

(* Mutant: the nearest candidate accepted without the test of its weights *)
FirstCandidate(candidates) ==
  IF candidates = <<>> THEN <<>> ELSE Head(candidates)

(* The loop over the sorted matches: the first interior stencil, <<>> for "not found" *)
RECURSIVE FirstInterior(_)
FirstInterior(candidates) ==
  IF candidates = <<>> THEN <<>>
  ELSE IF Interior(Head(candidates)) THEN Head(candidates)
  ELSE FirstInterior(Tail(candidates))

FoundInEdges(q) ==
  { FirstInterior([k \in 1..Len(p) |-> ElementsEdge(q, p[k].index)]) : p \in SortedMatches(EdgeMatches(q)) }

FoundInTriangles(q) ==
  { FirstInterior([k \in 1..Len(p) |-> ElementsTriangle(q, p[k].index)]) : p \in SortedMatches(TriangleMatches(q)) }

(* The vertex query assigns _weights[i] in its callback; with no vertex to report  *)
(* the callback never runs and _weights[i] keeps what resize left there.           *)
NearestVertexStencil(q, old) ==
  IF VertexMatches(q) = {} THEN old
  ELSE ElementsVertex(CHOOSE v \in VertexMatches(q) : TRUE)

(* What _weights[i] can hold when the 2D loop body has run for origin q *)
Stencils2D(q, old) ==
  { IF found # <<>> THEN found ELSE NearestVertexStencil(q, old) : found \in FoundInEdges(q) }

(* ... and the 3D loop body *)
Stencils3D(q, old) ==
  UNION { IF found # <<>> THEN { found } ELSE Stencils2D(q, old) : found \in FoundInTriangles(q) }

Stencils(q, old) ==
  IF dimensions = 2 THEN Stencils2D(q, old) ELSE Stencils3D(q, old)

(* _weights.resize(n): the first n entries kept, new ones empty *)
Resize(w, n) == [i \in 1..n |-> IF i <= Len(w) THEN w[i] ELSE <<>>]

RECURSIVE TablesUpTo(_, _)
TablesUpTo(n, resized) ==
  IF n = 0 THEN { <<>> }
  ELSE { Append(t, s) : t \in TablesUpTo(n - 1, resized),
                        s \in Stencils(fVertices[n].coords, resized[n]) }

(* The tables computeMapping can leave, called with the table old *)
ComputedTables(old) == TablesUpTo(Len(fVertices), Resize(old, Len(fVertices)))

-----------------------------------------------------------------------------
(* The instance *)

Init ==
  /\ constraint \in { "CONSISTENT", "CONSERVATIVE" }
  /\ dimensions \in { 2, 3 }
  /\ \E o \in OriginMeshes(dimensions), s \in SearchMeshes(dimensions), t \in BOOLEAN :
       LET search == IF t THEN FirstTagged(s) ELSE s
       IN  /\ inputMesh = IF constraint = "CONSISTENT" THEN search ELSE o
           /\ outputMesh = IF constraint = "CONSISTENT" THEN o ELSE search
  /\ _weights = <<>>
  /\ _hasComputedMapping = FALSE
  /\ dataDimensions = 0
  /\ inValues = <<>>
  /\ outBefore = <<>>
  /\ outValues = <<>>
  /\ lastOp = "none"
  /\ returned = "void"
  /\ status = "ok"

computeMapping ==
  /\ status = "ok"
  /\ \E table \in ComputedTables(_weights) : _weights' = table
  /\ _hasComputedMapping' = TRUE
  /\ lastOp' = "computeMapping"
  /\ returned' = "void"
  /\ NoData
  /\ UNCHANGED <<meshVars, status>>

hasComputedMapping ==
  /\ status = "ok"
  /\ returned' = _hasComputedMapping
  /\ lastOp' = "hasComputedMapping"
  /\ NoData
  /\ UNCHANGED <<meshVars, _weights, _hasComputedMapping, status>>

(* Mutant: the table emptied but the flag left as it is *)
clearKeepsFlag ==
  /\ status = "ok"
  /\ _weights' = <<>>
  /\ lastOp' = "clear"
  /\ returned' = "void"
  /\ NoData
  /\ UNCHANGED <<meshVars, _hasComputedMapping, status>>

clear ==
  /\ status = "ok"
  /\ _weights' = <<>>
  /\ _hasComputedMapping' = FALSE
  /\ lastOp' = "clear"
  /\ returned' = "void"
  /\ NoData
  /\ UNCHANGED <<meshVars, status>>

-----------------------------------------------------------------------------
(* map *)

ValueDims == { 1, dimensions }

(* The arrays a caller hands in: pre-sized, the input constant or rising, the      *)
(* output zeroed or not.                                                           *)
InFields(len) ==
  { [j \in 1..len |-> Rat(c, 1)] : c \in 1..MaxVal } \cup { [j \in 1..len |-> Rat(j, 1)] }

OutFields(len) == { [j \in 1..len |-> RatZero], [j \in 1..len |-> RatOne] }

RECURSIVE Flatten(_)
Flatten(ss) == IF ss = <<>> THEN <<>> ELSE Head(ss) \o Flatten(Tail(ss))

(* The offsets of one innermost statement, outValues(outOffset + dim) +=           *)
(* elem.weight * inValues(inOffset + dim), in either branch                        *)
ConsistentOffsets(i, elem, dim, m) ==
  [outOffset |-> i * m + dim, inOffset |-> elem.element.id * m + dim, weight |-> elem.weight]

(* Mutant: the output offset without the stride of the data *)
ConservativeOffsetsNoStride(i, elem, dim, m) ==
  [outOffset |-> elem.element.id + dim, inOffset |-> i * m + dim, weight |-> elem.weight]

ConservativeOffsets(i, elem, dim, m) ==
  [outOffset |-> elem.element.id * m + dim, inOffset |-> i * m + dim, weight |-> elem.weight]

Offsets(i, elem, dim, m) ==
  IF constraint = "CONSISTENT" THEN ConsistentOffsets(i, elem, dim, m)
  ELSE ConservativeOffsets(i, elem, dim, m)

(* The innermost statements in the order the three loops run them; both branches   *)
(* loop over the vertices of the origins mesh.                                     *)
Statements(m) ==
  Flatten([i \in 1..Len(fVertices) |->
    Flatten([e \in 1..Len(_weights[i]) |->
      [dim \in 1..m |-> Offsets(i - 1, _weights[i][e], dim - 1, m)]])])

RECURSIVE Accumulate(_, _, _)
Accumulate(out, in, stmts) ==
  IF stmts = <<>> THEN out
  ELSE LET st == Head(stmts)
       IN  Accumulate([out EXCEPT ![st.outOffset + 1] =
                         RatAdd(@, RatMul(st.weight, in[st.inOffset + 1]))],
                      in, Tail(stmts))

(* The assertions of map hold and every reference and offset it uses is good:      *)
(* the table has an entry per origin vertex and its elements point into the        *)
(* search mesh.                                                                    *)
MapDefined ==
  /\ Len(_weights) = Len(fVertices)
  /\ \A i \in 1..Len(_weights) : \A e \in 1..Len(_weights[i]) :
       /\ _weights[i][e].element.mesh = search_space.name
       /\ _weights[i][e].element.id < Len(tVertices)

(* Otherwise an assertion ends the run (debug build) or map reads past the table   *)
(* (release build): the process dies, or returns with anything in outValues.       *)
map ==
  /\ status = "ok"
  /\ \E m \in ValueDims :
     \E in \in InFields(Len(inputMesh.vertices) * m), out \in OutFields(Len(outputMesh.vertices) * m) :
       /\ dataDimensions' = m
       /\ inValues' = in
       /\ outBefore' = out
       /\ IF MapDefined
          THEN /\ outValues' = Accumulate(out, in, Statements(m))
               /\ status' = "ok"
          ELSE \/ /\ outValues' = out
                  /\ status' = "aborted"
               \/ /\ outValues' \in OutFields(Len(out))
                  /\ status' = "ok"
  /\ lastOp' = "map"
  /\ returned' = "void"
  /\ UNCHANGED <<meshVars, _weights, _hasComputedMapping>>

-----------------------------------------------------------------------------
(* Tagging *)

(* "Determine the Mesh to Tag" *)
MeshToTag == IF constraint = "CONSISTENT" THEN inputMesh ELSE outputMesh

(* !math::equals(elem.weight, 0.0) *)
NonZero(w) == w[1] # 0

ReferencedBy(elems) ==
  { elems[e].element : e \in { k \in 1..Len(elems) : NonZero(elems[k].weight) } }

(* Mutant: the shortcut taken as soon as anything is gathered *)
GatherStopsEarly(table, tagged, max_count) ==
  IF table = <<>> THEN tagged ELSE tagged \cup ReferencedBy(Head(table))

(* The gathering loop, with its shortcut once max_count vertices are gathered *)
RECURSIVE Gather(_, _, _)
Gather(table, tagged, max_count) ==
  IF table = <<>> THEN tagged
  ELSE LET more == tagged \cup ReferencedBy(Head(table))
       IN  IF Cardinality(more) = max_count THEN more
           ELSE Gather(Tail(table), more, max_count)

(* The tagging loop: v.tag() for every vertex of the mesh found in the set *)
TagVertices(mesh, tagged) ==
  [mesh EXCEPT !.vertices = [i \in 1..Len(mesh.vertices) |->
     IF Ref(mesh, i - 1) \in tagged THEN [mesh.vertices[i] EXCEPT !.tagged = TRUE]
     ELSE mesh.vertices[i]]]

tagMeshFirstRound ==
  /\ status = "ok"
  /\ \E table \in ComputedTables(_weights) :
       LET tagged == Gather(table, {}, Len(MeshToTag.vertices))
       IN  IF constraint = "CONSISTENT"
           THEN /\ inputMesh' = TagVertices(MeshToTag, tagged)
                /\ outputMesh' = outputMesh
           ELSE /\ outputMesh' = TagVertices(MeshToTag, tagged)
                /\ inputMesh' = inputMesh
  /\ _weights' = <<>>
  /\ _hasComputedMapping' = FALSE
  /\ lastOp' = "tagMeshFirstRound"
  /\ returned' = "void"
  /\ NoData
  /\ UNCHANGED <<constraint, dimensions, status>>

tagMeshSecondRound ==
  /\ status = "ok"
  /\ lastOp' = "tagMeshSecondRound"
  /\ returned' = "void"
  /\ NoData
  /\ UNCHANGED <<meshVars, _weights, _hasComputedMapping, status>>

-----------------------------------------------------------------------------
(* The instance on the meshes it was constructed with *)

Next ==
  \/ computeMapping
  \/ hasComputedMapping
  \/ clear
  \/ map
  \/ tagMeshFirstRound
  \/ tagMeshSecondRound

Spec == Init /\ [][Next]_vars

(* The meshes changing under the instance (they are shared, and the enclosing      *)
(* system repartitions them): either mesh is replaced by another of its kind.      *)
setMeshes ==
  /\ status = "ok"
  /\ \E o \in OriginMeshes(dimensions), s \in SearchMeshes(dimensions) :
       /\ inputMesh' = IF constraint = "CONSISTENT" THEN s ELSE o
       /\ outputMesh' = IF constraint = "CONSISTENT" THEN o ELSE s
  /\ lastOp' = "setMeshes"
  /\ returned' = "void"
  /\ NoData
  /\ UNCHANGED <<constraint, dimensions, _weights, _hasComputedMapping, status>>

NextRemesh ==
  \/ computeMapping
  \/ clear
  \/ setMeshes

SpecRemesh == Init /\ [][NextRemesh]_vars

-----------------------------------------------------------------------------
(* The claims.  Helpers first: what a claim says in its own terms, without the     *)
(* loops of the code.                                                              *)

StencilWeights(elems) == [k \in 1..Len(elems) |-> elems[k].weight]

(* The shortlisted candidates an origin at q projects into *)
InteriorTriangles(q) ==
  IF dimensions = 3
  THEN { c \in TriangleMatches(q) : Interior(ElementsTriangle(q, c.index)) }
  ELSE {}

InteriorEdges(q) == { c \in EdgeMatches(q) : Interior(ElementsEdge(q, c.index)) }

Nearer(a, b) == RatLess(a.distance, b.distance)
NearerOrSmallerId(a, b) ==
  RatLess(a.distance, b.distance) \/ (a.distance = b.distance /\ a.index < b.index)

(* C1: the instance starts Empty; it is Computed right after every computeMapping; *)
(* Empty with an empty table right after every clear and every tagMeshFirstRound;  *)
(* map, hasComputedMapping and tagMeshSecondRound change neither flag nor table,   *)
(* and hasComputedMapping returns the flag.                                        *)
C1_Lifecycle ==
  /\ (~_hasComputedMapping /\ _weights = <<>>)
  /\ [][ /\ (lastOp' = "computeMapping" => _hasComputedMapping')
         /\ (lastOp' \in { "clear", "tagMeshFirstRound" } =>
               ~_hasComputedMapping' /\ _weights' = <<>>)
         /\ (lastOp' \in { "map", "hasComputedMapping", "tagMeshSecondRound" } =>
               _hasComputedMapping' = _hasComputedMapping /\ _weights' = _weights)
         /\ (lastOp' = "hasComputedMapping" => returned' = _hasComputedMapping) ]_vars

C1_Witness ==
  /\ lastOp = "map"
  /\ _hasComputedMapping
  /\ Len(_weights) = 2
  /\ outValues # outBefore

C3_StencilSizeAndSum ==
  _hasComputedMapping =>
    \A i \in 1..Len(_weights) :
      /\ Len(_weights[i]) \in 1..3
      /\ SumSeq(StencilWeights(_weights[i])) = RatOne

(* C4: with an origin vertex and a search mesh without any primitive,              *)
(* computeMapping fails and leaves the instance Empty, without a table.            *)
C4_EmptySearchSpaceFails ==
  ( /\ lastOp = "computeMapping"
    /\ fVertices # <<>>
    /\ tVertices = <<>> /\ tEdges = <<>> /\ tTriangles = <<>> ) =>
      /\ status # "ok"
      /\ ~_hasComputedMapping
      /\ _weights = <<>>

(* C5: map called while hasComputedMapping is false fails, whatever the meshes,    *)
(* and writes nothing to the output array.                                         *)
C5_MapBeforeComputeFails ==
  (lastOp = "map" /\ ~_hasComputedMapping) =>
      /\ status # "ok"
      /\ outValues = outBefore

(* C6: tagMeshFirstRound tags, in the search mesh, exactly the vertices tagged     *)
(* before or referenced with a nonzero weight by the mapping it computed; it       *)
(* resets no tag, and changes nothing in the origins mesh.                         *)
C6_Tagging ==
  [][ lastOp' = "tagMeshFirstRound" =>
        \E table \in ComputedTables(_weights) :
          LET consistent == constraint = "CONSISTENT"
              before == IF consistent THEN inputMesh ELSE outputMesh
              after == IF consistent THEN inputMesh' ELSE outputMesh'
              Referenced(id) ==
                \E i \in 1..Len(table) : \E e \in 1..Len(table[i]) :
                  /\ table[i][e].element = [mesh |-> before.name, id |-> id]
                  /\ table[i][e].weight # RatZero
          IN  /\ Len(after.vertices) = Len(before.vertices)
              /\ \A id \in 0..(Len(before.vertices) - 1) :
                   /\ after.vertices[id + 1].tagged <=>
                        (before.vertices[id + 1].tagged \/ Referenced(id))
                   /\ after.vertices[id + 1].coords = before.vertices[id + 1].coords
              /\ IF consistent THEN outputMesh' = outputMesh ELSE inputMesh' = inputMesh ]_vars

(* Two origins beside a triangle: one projects onto the end of an edge (the other  *)
(* end gets weight 0 and no tag), one falls back to the nearest vertex.            *)
C6_Witness ==
  /\ lastOp = "tagMeshFirstRound"
  /\ constraint = "CONSERVATIVE"
  /\ Len(fVertices) = 2
  /\ tTriangles # <<>>
  /\ Len(outputMesh.vertices) = 3
  /\ Tagged(outputMesh) = { 0, 1 }


(* What the stencils of input vertex i hand to component k of output vertex v, and  *)
(* the sum of component k over the n vertices of an array                          *)
Contribution(v, i, k) ==
  SumSeq([e \in 1..Len(_weights[i + 1]) |->
            IF _weights[i + 1][e].element.id = v
            THEN RatMul(_weights[i + 1][e].weight, inValues[i * dataDimensions + k + 1])
            ELSE RatZero])

ComponentSum(values, n, k) == SumSeq([v \in 1..n |-> values[(v - 1) * dataDimensions + k + 1]])

(* C7: a conservative map in the Computed state, on a zeroed output array, adds    *)
(* w * inValues[i*m+k] to outValues[v.id*m+k] for every input vertex i, every      *)
(* element (v, w) of its stencil and every component k; when every stencil's       *)
(* weights sum to 1, each component's sum over the output vertices equals its sum  *)
(* over the input vertices.                                                        *)
C7_ConservativeMap ==
  ( /\ lastOp = "map"
    /\ constraint = "CONSERVATIVE"
    /\ _hasComputedMapping
    /\ \A j \in 1..Len(outBefore) : outBefore[j] = RatZero ) =>
      LET nIn == Len(inputMesh.vertices)
          nOut == Len(outputMesh.vertices)
      IN  /\ status = "ok"
          /\ Len(outValues) = nOut * dataDimensions
          /\ \A v \in 0..(nOut - 1), k \in 0..(dataDimensions - 1) :
               outValues[v * dataDimensions + k + 1] =
                 SumSeq([i \in 1..nIn |-> Contribution(v, i - 1, k)])
          /\ (\A i \in 1..nIn : SumSeq(StencilWeights(_weights[i])) = RatOne) =>
               \A k \in 0..(dataDimensions - 1) :
                 ComponentSum(outValues, nOut, k) = ComponentSum(inValues, nIn, k)

(* Vector data of two input vertices, one spread over a triangle, one put on a     *)
(* vertex of that triangle.                                                        *)
C7_Witness ==
  /\ lastOp = "map"
  /\ constraint = "CONSERVATIVE"
  /\ _hasComputedMapping
  /\ status = "ok"
  /\ dataDimensions = 3
  /\ Len(inputMesh.vertices) = 2
  /\ Len(_weights[1]) = 3
  /\ Len(_weights[2]) = 1
  /\ _weights[2][1].element.id = 1
  /\ outBefore[1] = RatZero
  /\ outValues[4] = <<17, 4>>

(* C8: per origin the cascade is triangle (3D only), then edge, then vertex: the   *)
(* stencil stored is that of a shortlisted triangle the origin projects into, none *)
(* such being nearer; failing any, of such an edge; failing any, the unit stencil  *)
(* of a nearest vertex.                                                            *)
C8_Cascade ==
  lastOp = "computeMapping" =>
    \A i \in 1..Len(fVertices) :
      LET q == fVertices[i].coords
          tris == InteriorTriangles(q)
          edges == InteriorEdges(q)
      IN  IF tris # {}
          THEN \E c \in tris :
                 /\ _weights[i] = ElementsTriangle(q, c.index)
                 /\ \A o \in tris : ~Nearer(o, c)
          ELSE IF edges # {}
          THEN \E c \in edges :
                 /\ _weights[i] = ElementsEdge(q, c.index)
                 /\ \A o \in edges : ~Nearer(o, c)
          ELSE tVertices # <<>> =>
                 \E v \in 0..(Len(tVertices) - 1) :
                   /\ _weights[i] = ElementsVertex(v)
                   /\ \A u \in 0..(Len(tVertices) - 1) :
                        ~RatLess(DistanceVertex(q, u), DistanceVertex(q, v))

(* One origin over the triangle, one beside it that only an edge takes, in 3D *)
C8_Witness ==
  /\ lastOp = "computeMapping"
  /\ dimensions = 3
  /\ tTriangles # <<>>
  /\ Len(_weights) = 2
  /\ Len(_weights[1]) = 2
  /\ Len(_weights[2]) = 3

(* C9: candidates are ordered by distance, then by identifier, so of the           *)
(* candidates an origin projects into the one accepted is the first in that order  *)
(* (at equal distance the smaller identifier), and the table does not depend on    *)
(* the order the index reported them in.                                           *)
C9_TieBreakById ==
  lastOp = "computeMapping" =>
    \A i \in 1..Len(fVertices) :
      LET q == fVertices[i].coords
          tris == InteriorTriangles(q)
          edges == InteriorEdges(q)
      IN  /\ tris # {} =>
               \E c \in tris :
                 /\ _weights[i] = ElementsTriangle(q, c.index)
                 /\ \A o \in tris \ { c } : NearerOrSmallerId(c, o)
          /\ (tris = {} /\ edges # {}) =>
               \E c \in edges :
                 /\ _weights[i] = ElementsEdge(q, c.index)
                 /\ \A o \in edges \ { c } : NearerOrSmallerId(c, o)

(* C10: computeMapping leaves the table that clear followed by computeMapping      *)
(* leaves on the same meshes, whatever the table held before the call.             *)
C10_IndependentOfOldTable ==
  [][ lastOp' = "computeMapping" => _weights' \in ComputedTables(<<>>) ]_vars

=============================================================================
